---- MODULE Spec2Model ----
(***************************************************************************)
(* Model of the recipients cell: the useRecipientsCalculation hook (the    *)
(* fitting engine), the useTextMeasurement hook (the measurement service)  *)
(* and the render / effect cycle that drives them.                         *)
(*                                                                         *)
(* Strings are sequences of one-character strings, so that split, trim,    *)
(* the e-mail pattern, join and the text width are computed character by   *)
(* character.  Widths are pixels.                                          *)
(***************************************************************************)
EXTENDS Integers, Sequences, FiniteSets, TLC

(***************************************************************************)
(* Bounds and program constants                                            *)
(***************************************************************************)
\* the container's clientWidth ranges over 0, WidthStep, ..., MaxWidthUnits * WidthStep
MaxWidthUnits == 2
WidthStep == 100
\* the host changes the props at most MaxPropChanges times after the mount
MaxPropChanges == 1

\* useRecipientsCalculation: minWidth = 50, e-mail length limit 254
DefaultMinWidth == 50
MaxEmailLength == 254
\* the other minWidth a host supplies in this model
WideMinWidth == 150
\* the explicit maxWidth override a host supplies in this model
OverrideWidth == 160

\* advance widths of the model font: punctuation and blanks are narrow
NarrowCharWidth == 4
WideCharWidth == 8

Widths == {u * WidthStep : u \in 0..MaxWidthUnits}

\* ellipsisSuffix default ',...'
DefaultEllipsisSuffix == <<",", ".", ".", ".">>
\* a custom ellipsisSuffix: ', and others'
LongEllipsisSuffix == <<",", " ", "a", "n", "d", " ", "o", "t", "h", "e", "r", "s">>
Suffixes == {DefaultEllipsisSuffix, LongEllipsisSuffix}

\* recipients props: '', 'a@x.com, bb@y.com, ccc@z.com', 'notanemail, recipient@z.com'
RawEmpty == <<>>
RawThree == <<"a", "@", "x", ".", "c", "o", "m", ",", " ", "b", "b", "@", "y", ".", "c", "o", "m", ",", " ", "c", "c", "c", "@", "z", ".", "c", "o", "m">>
RawMalformed == <<"n", "o", "t", "a", "n", "e", "m", "a", "i", "l", ",", " ", "r", "e", "c", "i", "p", "i", "e", "n", "t", "@", "z", ".", "c", "o", "m">>
\* how many timers one behaviour sets
MaxTimers == 3
\* a tooltip delay in milliseconds, as in the usage example of RecipientsCell
HoverDelay == 300
Delays == {0, HoverDelay}

RawInputs == {RawEmpty, RawThree, RawMalformed}

\* maxWidth?: number -- absent, or supplied with a value
NoMaxWidth == [supplied |-> FALSE, px |-> 0]
MaxWidths == {NoMaxWidth, [supplied |-> TRUE, px |-> 0], [supplied |-> TRUE, px |-> OverrideWidth]}
MinWidths == {DefaultMinWidth, WideMinWidth}

(***************************************************************************)
(* Parsing: recipients.split(',').map(trim).filter(valid)                  *)
(***************************************************************************)
IsSpace(c) == c = " "

RECURSIVE Split(_)
Split(s) ==
  IF \A i \in 1..Len(s) : s[i] # ","
  THEN <<s>>
  ELSE LET i == CHOOSE k \in 1..Len(s) : s[k] = "," /\ \A j \in 1..(k - 1) : s[j] # ","
       IN  <<SubSeq(s, 1, i - 1)>> \o Split(SubSeq(s, i + 1, Len(s)))

RECURSIVE TrimStart(_)
TrimStart(s) == IF s # <<>> /\ IsSpace(Head(s)) THEN TrimStart(Tail(s)) ELSE s

RECURSIVE TrimEnd(_)
TrimEnd(s) == IF s # <<>> /\ IsSpace(s[Len(s)]) THEN TrimEnd(SubSeq(s, 1, Len(s) - 1)) ELSE s

Trim(s) == TrimEnd(TrimStart(s))

\* /^[^\s@]+@[^\s@]+\.[^\s@]+$/ : no blank, exactly one '@' with a non-empty
\* local part, and a '.' after it with something on both sides
EmailRegexTest(e) ==
  /\ \A i \in 1..Len(e) : ~IsSpace(e[i])
  /\ Cardinality({i \in 1..Len(e) : e[i] = "@"}) = 1
  /\ \E a \in 2..Len(e) :
       /\ e[a] = "@"
       /\ \E d \in (a + 2)..(Len(e) - 1) : e[d] = "."

IsValidEmail(e) == Len(e) > 0 /\ Len(e) <= MaxEmailLength /\ EmailRegexTest(e)

RECURSIVE FilterValid(_)
FilterValid(tokens) ==
  IF tokens = <<>> THEN <<>>
  ELSE LET e == Trim(Head(tokens))
       IN  (IF IsValidEmail(e) THEN <<e>> ELSE <<>>) \o FilterValid(Tail(tokens))

\* the emails useMemo
ParseRecipients(raw) == IF raw = <<>> THEN <<>> ELSE FilterValid(Split(raw))

ParsedTable == [r \in RawInputs |-> ParseRecipients(r)]
Emails(raw) == ParsedTable[raw]

(***************************************************************************)
(* Measurement service                                                     *)
(***************************************************************************)
CharWidth(c) == IF c \in {" ", ",", "."} THEN NarrowCharWidth ELSE WideCharWidth

RECURSIVE TextWidth(_)
TextWidth(text) == IF text = <<>> THEN 0 ELSE CharWidth(Head(text)) + TextWidth(Tail(text))

\* measureTextWidth: the canvas width, or 0 when the context is missing or
\* the canvas throws
measureTextWidthFailWide(text, canvasOk) == IF canvasOk THEN TextWidth(text) ELSE 1000000

measureTextWidth(text, canvasOk) == IF canvasOk THEN TextWidth(text) ELSE 0

RECURSIVE Join(_)
Join(list) ==
  IF list = <<>> THEN <<>>
  ELSE IF Len(list) = 1 THEN list[1]
  ELSE list[1] \o <<",", " ">> \o Join(Tail(list))

(***************************************************************************)
(* Fitting engine: computeVisibleRecipients                                *)
(***************************************************************************)
\* const availableWidth = maxWidth || container.clientWidth
AvailableWidth(mw, cw) == IF mw.supplied /\ mw.px # 0 THEN mw.px ELSE cw

\* if (width <= availableWidth || (visible.length === 0 && allowOverflow))
AcceptCandidateAnd(width, availableWidth, visible, allow) ==
  width <= availableWidth /\ (Len(visible) = 0 /\ allow)

AcceptCandidateNoOverflow(width, availableWidth, visible, allow) ==
  width <= availableWidth

AcceptCandidate(width, availableWidth, visible, allow) ==
  width <= availableWidth \/ (Len(visible) = 0 /\ allow)

\* the text measured for a candidate prefix
TotalText(proposedVisible, total, suffix) ==
  Join(proposedVisible) \o (IF total - Len(proposedVisible) > 0 THEN suffix ELSE <<>>)

\* the for loop: visible grows by one item per accepted candidate and the
\* loop breaks at the first rejected one; calls counts measureTextWidth
RECURSIVE FitLoopNoBreak(_, _, _, _, _, _, _)
FitLoopNoBreak(emails, visible, calls, availableWidth, suffix, allow, canvasOk) ==
  IF Len(visible) = Len(emails)
  THEN [visible |-> visible, calls |-> calls]
  ELSE LET proposedVisible == Append(visible, emails[Len(visible) + 1])
           totalText == TotalText(proposedVisible, Len(emails), suffix)
           width == measureTextWidth(totalText, canvasOk)
       IN  IF AcceptCandidate(width, availableWidth, visible, allow)
           THEN FitLoopNoBreak(emails, proposedVisible, calls + 1, availableWidth, suffix, allow, canvasOk)
           ELSE [visible |-> visible, calls |-> calls + (Len(emails) - Len(visible))]

RECURSIVE FitLoop(_, _, _, _, _, _, _)
FitLoop(emails, visible, calls, availableWidth, suffix, allow, canvasOk) ==
  IF Len(visible) = Len(emails)
  THEN [visible |-> visible, calls |-> calls]
  ELSE LET proposedVisible == Append(visible, emails[Len(visible) + 1])
           totalText == TotalText(proposedVisible, Len(emails), suffix)
           width == measureTextWidth(totalText, canvasOk)
       IN  IF AcceptCandidate(width, availableWidth, visible, allow)
           THEN FitLoop(emails, proposedVisible, calls + 1, availableWidth, suffix, allow, canvasOk)
           ELSE [visible |-> visible, calls |-> calls + 1]

\* availableWidth < minWidth
BelowMinWidthFlipped(availableWidth, minW) == availableWidth > minW

BelowMinWidth(availableWidth, minW) == availableWidth < minW

\* the early return: setVisibleList([]); setHiddenCount(emails.length); setIsReady(true)
EarlyExitResultZeroHidden(emails) ==
  [visibleList |-> <<>>, hiddenCount |-> 0, isReady |-> TRUE,
   path |-> "early", fontCalls |-> 0, measureCalls |-> 0]

EarlyExitResultNotReady(emails) ==
  [visibleList |-> <<>>, hiddenCount |-> Len(emails), isReady |-> FALSE,
   path |-> "early", fontCalls |-> 0, measureCalls |-> 0]

EarlyExitResult(emails) ==
  [visibleList |-> <<>>, hiddenCount |-> Len(emails), isReady |-> TRUE,
   path |-> "early", fontCalls |-> 0, measureCalls |-> 0]

\* the catch block: setVisibleList(emails); setHiddenCount(0); setIsReady(true)
FallbackResultEmpty(emails) ==
  [visibleList |-> <<>>, hiddenCount |-> Len(emails), isReady |-> TRUE,
   path |-> "fallback", fontCalls |-> 1, measureCalls |-> 0]

FallbackResult(emails) ==
  [visibleList |-> emails, hiddenCount |-> 0, isReady |-> TRUE,
   path |-> "fallback", fontCalls |-> 1, measureCalls |-> 0]

\* after the loop: setVisibleList(visible); setHiddenCount(emails.length - visible.length)
FitResult(emails, fit) ==
  [visibleList |-> fit.visible, hiddenCount |-> Len(emails) - Len(fit.visible),
   isReady |-> TRUE, path |-> "fit", fontCalls |-> 1, measureCalls |-> fit.calls]

\* One evaluation with the props c the calling closure holds, the live
\* container (attached, cw) and the behaviour of the rendering facility
\* (fontThrows: getComputedStyle throws; canvasOk: the canvas measures).
\* The result is what the three setters receive, together with the path
\* taken and the number of calls made to the measurement service.
computeVisibleRecipients(c, attached, cw, fontThrows, canvasOk) ==
  LET emails == Emails(c.recipients)
      availableWidth == AvailableWidth(c.maxWidth, cw)
  IN  IF ~attached \/ Len(emails) = 0 THEN EarlyExitResult(emails)
      ELSE IF BelowMinWidth(availableWidth, c.minWidth) THEN EarlyExitResult(emails)
      ELSE IF fontThrows THEN FallbackResult(emails)
      ELSE FitResult(emails, FitLoop(emails, <<>>, 0, availableWidth, c.ellipsisSuffix,
                                     c.allowOverflow, canvasOk))

\* the displayText useMemo body
DisplayTextOfAlwaysSuffix(vl, hc, suffix, ready) ==
  IF ~ready THEN <<>>
  ELSE IF hc >= 0 THEN Join(vl) \o suffix ELSE Join(vl)

DisplayTextOfNoSuffix(vl, hc, suffix, ready) ==
  IF ~ready THEN <<>> ELSE Join(vl)

DisplayTextOf(vl, hc, suffix, ready) ==
  IF ~ready THEN <<>>
  ELSE IF hc > 0 THEN Join(vl) \o suffix ELSE Join(vl)

(***************************************************************************)
(* State                                                                   *)
(***************************************************************************)
VARIABLES
  recipients,      \* prop: the raw comma-separated string
  maxWidth,        \* config.maxWidth
  ellipsisSuffix,  \* config.ellipsisSuffix
  allowOverflow,   \* config.allowOverflow
  minWidth,        \* config.minWidth
  containerRef,    \* containerRef.current is an element (TRUE) or null (FALSE)
  clientWidth,     \* the element's clientWidth
  visibleList,     \* useState
  hiddenCount,     \* useState
  isReady,         \* useState
  displayText,     \* the useMemo value of the last committed render
  observer,        \* the ResizeObserver subscription and the props its callback closes over
  observerDeps,    \* containerRef.current as the last render saw it (the effect's dependency)
  pendingEffects,  \* effects of the last commit that have not run yet
  evaluation,      \* the inputs and the path of the last computeVisibleRecipients call
  propChanges,     \* how many times the host has changed the props
  mounted,         \* the component is mounted
  subscriptions,   \* how many ResizeObservers are connected to the element
  showDelay,       \* config.tooltip.showDelay
  hideDelay,       \* config.tooltip.hideDelay
  disabled,        \* config.tooltip.disabled
  isVisible,       \* useState of useTooltip (showTooltip in RecipientsCell)
  showTimeout,     \* useState: the handle of the last show timer, 0 for null
  hideTimeout,     \* useState: the handle of the last hide timer, 0 for null
  timers,          \* the timers that are armed: set and neither cleared nor expired
  timerCount,      \* how many timers have been set so far (the last handle)
  lastCall,        \* the last call of a tooltip control function
  callbacks,       \* the host passes onTruncate, onTooltipShow and onTooltipHide
  calls            \* the callbacks invoked by the effects of the last step

vars == <<recipients, maxWidth, ellipsisSuffix, allowOverflow, minWidth, containerRef,
          clientWidth, visibleList, hiddenCount, isReady, displayText, observer,
          observerDeps, pendingEffects, evaluation, propChanges, mounted, subscriptions,
          showDelay, hideDelay, disabled, isVisible, showTimeout, hideTimeout, timers,
          timerCount, lastCall, callbacks, calls>>

\* the state of useRecipientsCalculation and of its host's props
hookVars == <<recipients, maxWidth, ellipsisSuffix, allowOverflow, minWidth, containerRef,
              clientWidth, visibleList, hiddenCount, isReady, displayText, observer,
              observerDeps, pendingEffects, evaluation, propChanges, mounted, subscriptions>>

\* the state of useTooltip and its configuration
tooltipVars == <<showDelay, hideDelay, disabled, isVisible, showTimeout, hideTimeout, timers,
                 timerCount, lastCall>>

props == <<recipients, maxWidth, ellipsisSuffix, allowOverflow, minWidth>>

\* the props a render's computeVisibleRecipients closes over
Closure(r, mw, sfx, allow, minW) ==
  [recipients |-> r, maxWidth |-> mw, ellipsisSuffix |-> sfx, allowOverflow |-> allow,
   minWidth |-> minW]

CurrentClosure == Closure(recipients, maxWidth, ellipsisSuffix, allowOverflow, minWidth)

\* what the rendering facility does during one evaluation: it works, or
\* getComputedStyle throws, or the canvas gives no context (or throws)
Facility == {"ok", "fontThrows", "noCanvas"}

NoObserver == [active |-> FALSE, closure |-> Closure(RawEmpty, NoMaxWidth, DefaultEllipsisSuffix, TRUE, DefaultMinWidth)]

\* what an evaluation leaves behind for inspection
EvaluationOf(trigger, c, attached, cw, fontThrows, canvasOk, res) ==
  [trigger |-> trigger, closure |-> c, attached |-> attached, clientWidth |-> cw,
   availableWidth |-> AvailableWidth(c.maxWidth, cw),
   fontThrows |-> fontThrows, canvasOk |-> canvasOk, path |-> res.path,
   fontCalls |-> res.fontCalls, measureCalls |-> res.measureCalls,
   suffixProp |-> ellipsisSuffix,
   repeated |-> /\ evaluation.trigger # "none"
                /\ <<c, attached, cw, fontThrows, canvasOk, ellipsisSuffix>> =
                     <<evaluation.closure, evaluation.attached, evaluation.clientWidth,
                       evaluation.fontThrows, evaluation.canvasOk, evaluation.suffixProp>>,
   republished |-> TRUE]

NoEvaluation ==
  [trigger |-> "none", closure |-> NoObserver.closure, attached |-> FALSE, clientWidth |-> 0,
   availableWidth |-> 0, fontThrows |-> FALSE, canvasOk |-> TRUE, path |-> "none",
   fontCalls |-> 0, measureCalls |-> 0, suffixProp |-> DefaultEllipsisSuffix,
   repeated |-> FALSE, republished |-> TRUE]

\* useMemo(..., [visibleList, hiddenCount, ellipsisSuffix, isReady]): the value
\* is recomputed when a dependency differs from the previous render's
MemoDisplayText(vl, hc, sfx, ready) ==
  IF <<vl, hc, sfx, ready>> = <<visibleList, hiddenCount, ellipsisSuffix, isReady>>
  THEN displayText
  ELSE DisplayTextOf(vl, hc, sfx, ready)

\* the effects a render leaves pending: the recompute effect when one of its
\* dependencies changed, the observer effect when containerRef.current is not
\* what the previous render saw
EffectsAfterRender(propsChanged) ==
  (IF propsChanged THEN {"recompute"} ELSE {}) \cup
  (IF containerRef # observerDeps THEN {"observer"} ELSE {})

Idle == mounted /\ pendingEffects = {}

NoCalls == [onTruncate |-> <<>>, onTooltipShow |-> <<>>, onTooltipHide |-> <<>>]

\* the callback effects of the first commit: all three run, with the values
\* of the first render.  An invocation is recorded by its arguments;
\* onTooltipHide has none and is recorded with showTooltip of the render before
\* (FALSE at the mount, where there is none).
MountEffects ==
  [onTruncate |-> IF isReady /\ hiddenCount > 0
                  THEN <<hiddenCount, Len(visibleList) + hiddenCount>> ELSE <<>>,
   onTooltipShow |-> IF isVisible /\ hiddenCount > 0 THEN <<hiddenCount>> ELSE <<>>,
   onTooltipHide |-> IF ~isVisible THEN <<FALSE>> ELSE <<>>]

\* the callback effects of a render that commits (vl, hc, ready, vis) after
\* the render of the current state: an effect runs when one of its
\* dependencies changed, and invokes its callback under its condition
CallbackEffects(vl, hc, ready, vis) ==
  [onTruncate |-> IF /\ <<hc, ready, Len(vl)>> # <<hiddenCount, isReady, Len(visibleList)>>
                     /\ ready /\ hc > 0
                  THEN <<hc, Len(vl) + hc>> ELSE <<>>,
   onTooltipShow |-> IF <<vis, hc>> # <<isVisible, hiddenCount>> /\ vis /\ hc > 0
                     THEN <<hc>> ELSE <<>>,
   onTooltipHide |-> IF vis # isVisible /\ ~vis THEN <<isVisible>> ELSE <<>>]

\* the invocations of one step: those of the mount's effects when they are
\* pending, then those of the render the step commits; optional callbacks
\* that the host did not pass are not invoked
Invoked(vl, hc, ready, vis) ==
  LET first == IF "notify" \in pendingEffects THEN MountEffects ELSE NoCalls
      next == CallbackEffects(vl, hc, ready, vis)
  IN  IF ~callbacks THEN NoCalls
      ELSE [k \in DOMAIN NoCalls |-> IF next[k] # <<>> THEN next[k] ELSE first[k]]

NoCall == [op |-> "none", ignored |-> FALSE]

(***************************************************************************)
(* Init: the first render has been committed, its effects are pending.     *)
(* The ref was null while rendering; the commit attached it, unless the    *)
(* host renders no target yet.                                             *)
(***************************************************************************)
\* useTooltip after its first render
InitTooltipState ==
  /\ isVisible = FALSE
  /\ showTimeout = 0
  /\ hideTimeout = 0
  /\ timers = {}
  /\ timerCount = 0
  /\ lastCall = NoCall
  /\ calls = NoCalls

\* the hook under a host that passes no tooltip configuration and no callbacks
Init ==
  /\ showDelay = 0
  /\ hideDelay = 0
  /\ disabled = FALSE
  /\ callbacks = FALSE
  /\ InitTooltipState
  /\ recipients \in RawInputs
  /\ maxWidth \in MaxWidths
  /\ ellipsisSuffix \in Suffixes
  /\ allowOverflow \in BOOLEAN
  /\ minWidth \in MinWidths
  /\ containerRef \in BOOLEAN
  /\ clientWidth \in Widths
  /\ visibleList = <<>>
  /\ hiddenCount = 0
  /\ isReady = FALSE
  /\ displayText = <<>>
  /\ observer = NoObserver
  /\ observerDeps = FALSE
  /\ pendingEffects = {"recompute", "observer"}
  /\ evaluation = NoEvaluation
  /\ propChanges = 0
  /\ mounted = TRUE
  /\ subscriptions = 0

\* RecipientsCell with three recipients, the default configuration of the
\* hook, a tooltip configuration and the three callbacks
InitCell ==
  /\ showDelay \in Delays
  /\ hideDelay \in Delays
  /\ disabled \in BOOLEAN
  /\ callbacks = TRUE
  /\ InitTooltipState
  /\ recipients = RawThree
  /\ maxWidth = NoMaxWidth
  /\ ellipsisSuffix = DefaultEllipsisSuffix
  /\ allowOverflow = TRUE
  /\ minWidth = DefaultMinWidth
  /\ containerRef = TRUE
  /\ clientWidth \in Widths
  /\ visibleList = <<>>
  /\ hiddenCount = 0
  /\ isReady = FALSE
  /\ displayText = <<>>
  /\ observer = NoObserver
  /\ observerDeps = FALSE
  /\ pendingEffects = {"recompute", "observer", "notify"}
  /\ evaluation = NoEvaluation
  /\ propChanges = 0
  /\ mounted = TRUE
  /\ subscriptions = 0

(***************************************************************************)
(* Actions                                                                 *)
(***************************************************************************)
\* a host render with new props: state is unchanged, displayText is
\* re-memoized, the effects are scheduled
RenderWith(r, mw, sfx, allow, minW) ==
  /\ Idle
  /\ <<r, mw, sfx, allow, minW>> # props
  /\ propChanges < MaxPropChanges
  /\ propChanges' = propChanges + 1
  /\ recipients' = r
  /\ maxWidth' = mw
  /\ ellipsisSuffix' = sfx
  /\ allowOverflow' = allow
  /\ minWidth' = minW
  /\ displayText' = MemoDisplayText(visibleList, hiddenCount, sfx, isReady)
  /\ pendingEffects' = EffectsAfterRender(TRUE)
  /\ observerDeps' = containerRef
  /\ UNCHANGED <<containerRef, clientWidth, visibleList, hiddenCount, isReady, observer, evaluation,
                 mounted, subscriptions>>
  /\ UNCHANGED <<tooltipVars, callbacks, calls>>

SetRecipients == \E r \in RawInputs : RenderWith(r, maxWidth, ellipsisSuffix, allowOverflow, minWidth)
SetMaxWidth == \E mw \in MaxWidths : RenderWith(recipients, mw, ellipsisSuffix, allowOverflow, minWidth)
SetEllipsisSuffix == \E sfx \in Suffixes : RenderWith(recipients, maxWidth, sfx, allowOverflow, minWidth)
SetAllowOverflow == \E allow \in BOOLEAN : RenderWith(recipients, maxWidth, ellipsisSuffix, allow, minWidth)
SetMinWidth == \E minW \in MinWidths : RenderWith(recipients, maxWidth, ellipsisSuffix, allowOverflow, minW)

\* a host render with the same props, after the ref changed
Rerender ==
  /\ Idle
  /\ containerRef # observerDeps
  /\ pendingEffects' = EffectsAfterRender(FALSE)
  /\ observerDeps' = containerRef
  /\ UNCHANGED <<recipients, maxWidth, ellipsisSuffix, allowOverflow, minWidth, containerRef,
                 clientWidth, visibleList, hiddenCount, isReady, displayText, observer, evaluation,
                 propChanges, mounted, subscriptions>>
  /\ UNCHANGED <<tooltipVars, callbacks, calls>>

\* the evaluation on record: whether a repeated evaluation (same inputs as
\* the one before) published what was already published
Recorded(ev, vl, hc, ready, text) ==
  [ev EXCEPT !.republished =
     ev.repeated => <<vl, hc, ready, text>> = <<visibleList, hiddenCount, isReady, displayText>>]

PublishAccumulating(res, ev) ==
  /\ visibleList' = res.visibleList
  /\ hiddenCount' = hiddenCount + res.hiddenCount
  /\ isReady' = res.isReady
  /\ displayText' = MemoDisplayText(res.visibleList, hiddenCount + res.hiddenCount, ellipsisSuffix, res.isReady)
  /\ evaluation' = Recorded(ev, res.visibleList, hiddenCount + res.hiddenCount, res.isReady,
                            MemoDisplayText(res.visibleList, hiddenCount + res.hiddenCount, ellipsisSuffix, res.isReady))
  /\ observerDeps' = containerRef
  /\ calls' = Invoked(res.visibleList, hiddenCount + res.hiddenCount, res.isReady, isVisible)

\* the state updates of one evaluation and the render they cause
Publish(res, ev) ==
  /\ visibleList' = res.visibleList
  /\ hiddenCount' = res.hiddenCount
  /\ isReady' = res.isReady
  /\ displayText' = MemoDisplayText(res.visibleList, res.hiddenCount, ellipsisSuffix, res.isReady)
  /\ evaluation' = Recorded(ev, res.visibleList, res.hiddenCount, res.isReady,
                            MemoDisplayText(res.visibleList, res.hiddenCount, ellipsisSuffix, res.isReady))
  /\ observerDeps' = containerRef
  /\ calls' = Invoked(res.visibleList, res.hiddenCount, res.isReady, isVisible)

\* the observer effect: disconnect the previous subscription, then subscribe
\* with this render's callback when the ref holds an element
Subscribe == IF containerRef THEN [active |-> TRUE, closure |-> CurrentClosure] ELSE NoObserver

DisconnectMissing(n) == n

\* the effect's cleanup, returned only by a run that subscribed:
\* observer.disconnect()
Disconnect(n) == IF observer.active THEN n - 1 ELSE n

\* the observer effect on the count of connected observers: the cleanup of
\* the previous run, then observe() when the ref holds an element
Resubscribed(n) == Disconnect(n) + (IF containerRef THEN 1 ELSE 0)

\* the pending effects run: the recompute effect evaluates with this render's
\* props, the observer effect re-subscribes; the state updates re-render
RunEffects ==
  /\ mounted
  /\ pendingEffects # {}
  /\ observer' = IF "observer" \in pendingEffects THEN Subscribe ELSE observer
  /\ subscriptions' = IF "observer" \in pendingEffects THEN Resubscribed(subscriptions)
                      ELSE subscriptions
  /\ IF "recompute" \in pendingEffects
     THEN \E f \in Facility :
            LET res == computeVisibleRecipients(CurrentClosure, containerRef, clientWidth,
                                                f = "fontThrows", f # "noCanvas")
            IN  /\ Publish(res, EvaluationOf("effect", CurrentClosure, containerRef, clientWidth,
                                             f = "fontThrows", f # "noCanvas", res))
                /\ pendingEffects' = (IF containerRef # observerDeps THEN {"observer"} ELSE {})
     ELSE /\ pendingEffects' = {}
          /\ calls' = Invoked(visibleList, hiddenCount, isReady, isVisible)
          /\ UNCHANGED <<visibleList, hiddenCount, isReady, displayText, observerDeps, evaluation>>
  /\ UNCHANGED <<recipients, maxWidth, ellipsisSuffix, allowOverflow, minWidth, containerRef,
                 clientWidth, propChanges, mounted>>
  /\ UNCHANGED <<tooltipVars, callbacks>>

\* the container's width changes and the observer notifies: the callback
\* evaluates with the props of the render that subscribed
ResizeObserved ==
  /\ pendingEffects = {}
  /\ subscriptions > 0
  /\ \E w \in Widths, f \in Facility :
       LET res == computeVisibleRecipients(observer.closure, containerRef, w,
                                           f = "fontThrows", f # "noCanvas")
       IN  /\ clientWidth' = w
           /\ Publish(res, EvaluationOf("resize", observer.closure, containerRef, w,
                                        f = "fontThrows", f # "noCanvas", res))
  /\ pendingEffects' = (IF containerRef # observerDeps THEN {"observer"} ELSE {})
  /\ UNCHANGED <<recipients, maxWidth, ellipsisSuffix, allowOverflow, minWidth, containerRef,
                 observer, propChanges, mounted, subscriptions>>
  /\ UNCHANGED <<tooltipVars, callbacks>>

\* the width changes while nothing observes it
ResizeUnobserved ==
  /\ Idle
  /\ subscriptions = 0
  /\ \E w \in Widths : w # clientWidth /\ clientWidth' = w
  /\ UNCHANGED <<recipients, maxWidth, ellipsisSuffix, allowOverflow, minWidth, containerRef,
                 visibleList, hiddenCount, isReady, displayText, observer, observerDeps,
                 pendingEffects, evaluation, propChanges, mounted, subscriptions>>
  /\ UNCHANGED <<tooltipVars, callbacks, calls>>

\* the host attaches the target element after the mount; a ref change renders
\* nothing.  Once attached the element stays: RecipientsCell always renders it.
AttachContainer ==
  /\ Idle
  /\ ~containerRef
  /\ containerRef' = TRUE
  /\ UNCHANGED <<recipients, maxWidth, ellipsisSuffix, allowOverflow, minWidth, clientWidth,
                 visibleList, hiddenCount, isReady, displayText, observer, observerDeps,
                 pendingEffects, evaluation, propChanges, mounted, subscriptions>>
  /\ UNCHANGED <<tooltipVars, callbacks, calls>>

\* the host unmounts the component: React clears the ref and runs the
\* cleanup of every effect that ran; effects still pending never run
Unmount ==
  /\ mounted
  /\ mounted' = FALSE
  /\ containerRef' = FALSE
  /\ subscriptions' = Disconnect(subscriptions)
  /\ observer' = [observer EXCEPT !.active = Disconnect(subscriptions) > 0]
  /\ pendingEffects' = {}
  /\ UNCHANGED <<recipients, maxWidth, ellipsisSuffix, allowOverflow, minWidth, clientWidth,
                 visibleList, hiddenCount, isReady, displayText, observerDeps, evaluation,
                 propChanges>>
  /\ UNCHANGED <<tooltipVars, callbacks, calls>>

Next ==
  \/ SetRecipients
  \/ SetMaxWidth
  \/ SetEllipsisSuffix
  \/ SetAllowOverflow
  \/ SetMinWidth
  \/ Rerender
  \/ RunEffects
  \/ ResizeObserved
  \/ ResizeUnobserved
  \/ AttachContainer
  \/ Unmount

Spec == Init /\ [][Next]_vars

(***************************************************************************)
(* useTooltip under RecipientsCell                                         *)
(***************************************************************************)
\* clearTimeout(handle): the timer with that handle, if still armed, is gone
ClearTimeout(armed, handle) == {t \in armed : t.id # handle}

\* the state updates of a tooltip operation and the render they cause; the
\* fitting state is not touched
TooltipRender(vis, op, ignored) ==
  /\ isVisible' = vis
  /\ lastCall' = [op |-> op, ignored |-> ignored]
  /\ calls' = Invoked(visibleList, hiddenCount, isReady, vis)
  /\ UNCHANGED <<hookVars, showDelay, hideDelay, disabled, callbacks>>

\* show(), from handleMouseEnter
Show ==
  /\ Idle
  /\ IF disabled
     THEN /\ TooltipRender(isVisible, "show", TRUE)
          /\ UNCHANGED <<showTimeout, hideTimeout, timers, timerCount>>
     ELSE /\ hideTimeout' = 0
          /\ IF showDelay > 0
             THEN /\ timerCount < MaxTimers
                  /\ timerCount' = timerCount + 1
                  /\ timers' = ClearTimeout(timers, hideTimeout) \cup
                                {[id |-> timerCount + 1, kind |-> "show"]}
                  /\ showTimeout' = timerCount + 1
                  /\ TooltipRender(isVisible, "show", FALSE)
             ELSE /\ timers' = ClearTimeout(timers, hideTimeout)
                  /\ TooltipRender(TRUE, "show", FALSE)
                  /\ UNCHANGED <<showTimeout, timerCount>>

\* hide(), the onMouseLeave handler
Hide ==
  /\ Idle
  /\ showTimeout' = 0
  /\ IF hideDelay > 0
     THEN /\ timerCount < MaxTimers
          /\ timerCount' = timerCount + 1
          /\ timers' = ClearTimeout(timers, showTimeout) \cup
                        {[id |-> timerCount + 1, kind |-> "hide"]}
          /\ hideTimeout' = timerCount + 1
          /\ TooltipRender(isVisible, "hide", FALSE)
     ELSE /\ timers' = ClearTimeout(timers, showTimeout)
          /\ TooltipRender(FALSE, "hide", FALSE)
          /\ UNCHANGED <<hideTimeout, timerCount>>

ShowImmediate ==
  /\ Idle
  /\ IF disabled
     THEN /\ TooltipRender(isVisible, "showImmediate", TRUE)
          /\ UNCHANGED <<showTimeout, hideTimeout, timers, timerCount>>
     ELSE /\ timers' = ClearTimeout(ClearTimeout(timers, showTimeout), hideTimeout)
          /\ showTimeout' = 0
          /\ hideTimeout' = 0
          /\ TooltipRender(TRUE, "showImmediate", FALSE)
          /\ UNCHANGED timerCount

HideImmediate ==
  /\ Idle
  /\ timers' = ClearTimeout(ClearTimeout(timers, showTimeout), hideTimeout)
  /\ showTimeout' = 0
  /\ hideTimeout' = 0
  /\ TooltipRender(FALSE, "hideImmediate", FALSE)
  /\ UNCHANGED timerCount

\* an armed timer expires and runs its callback: setIsVisible(true) for a
\* show timer, setIsVisible(false) for a hide timer; the handles kept in state
\* are not reset
TimerExpires ==
  /\ Idle
  /\ \E t \in timers :
       /\ timers' = timers \ {t}
       /\ isVisible' = (t.kind = "show")
       /\ calls' = Invoked(visibleList, hiddenCount, isReady, t.kind = "show")
  /\ UNCHANGED <<hookVars, showDelay, hideDelay, disabled, callbacks, showTimeout, hideTimeout,
                 timerCount, lastCall>>

\* the host changes config.tooltip.disabled
SetDisabled ==
  /\ Idle
  /\ disabled' = ~disabled
  /\ calls' = NoCalls
  /\ UNCHANGED <<hookVars, showDelay, hideDelay, callbacks, isVisible, showTimeout, hideTimeout,
                 timers, timerCount, lastCall>>

NextCell ==
  \/ RunEffects
  \/ ResizeObserved
  \/ Show
  \/ Hide
  \/ ShowImmediate
  \/ HideImmediate
  \/ TimerExpires
  \/ SetDisabled

SpecCell == InitCell /\ [][NextCell]_vars

(***************************************************************************)
(* Properties                                                              *)
(***************************************************************************)
IsPrefix(a, b) == Len(a) <= Len(b) /\ \A i \in 1..Len(a) : a[i] = b[i]
Prefix(list, k) == SubSeq(list, 1, k)

\* the item list and the inputs the last evaluation worked on
Evaluated == evaluation.trigger # "none"
EvalEmails == Emails(evaluation.closure.recipients)
\* the handler of the latest trigger has completed and published
Settled == Idle /\ isReady

\* the result the algorithm gives for the current props, the container as it
\* is and the facility as the last evaluation found it
CurrentFit ==
  computeVisibleRecipients(CurrentClosure, containerRef, clientWidth,
                           evaluation.fontThrows, evaluation.canvasOk)

\* the container is as the last evaluation read it
ContainerAsEvaluated ==
  evaluation.attached = containerRef /\ evaluation.clientWidth = clientWidth

\* C1 (as claimed): once the handler of the latest trigger has completed, the
\* published visibleList, hiddenCount and displayText are the fitting
\* algorithm's result for the current item list, the current configuration and
\* the current container width, for an evaluation started by a resize
\* notification as for one started by a change of the source string or of the
\* configuration.
C1_PublishedIsCurrentFit ==
  (Idle /\ Evaluated /\ ContainerAsEvaluated) =>
     /\ visibleList = CurrentFit.visibleList
     /\ hiddenCount = CurrentFit.hiddenCount
     /\ displayText = DisplayTextOf(CurrentFit.visibleList, CurrentFit.hiddenCount,
                                    ellipsisSuffix, TRUE)

\* C2 (as claimed): once evaluations have published, visibleList.length +
\* hiddenCount is the number of valid items of the current recipients string,
\* and hiddenCount is not negative.
C2_PartitionCountsCurrentItems ==
  Settled => /\ Len(visibleList) + hiddenCount = Len(Emails(recipients))
             /\ hiddenCount >= 0

\* C3 (as claimed): the published visibleList is a prefix of the valid item
\* list of the current recipients string: same items, same order, no gaps.
C3_VisibleIsPrefixOfCurrentItems ==
  Settled => IsPrefix(visibleList, Emails(recipients))

\* C4: in every committed render displayText is the visible items joined by
\* ", ", followed by the suffix marker exactly when hiddenCount > 0.
C4_DisplayTextComposition ==
  displayText = Join(visibleList) \o (IF hiddenCount > 0 THEN ellipsisSuffix ELSE <<>>)

\* a render committed with a new suffix marker before its effect has
\* re-evaluated: the hidden items of the previous partition show the new marker
C4_Witness ==
  /\ isReady
  /\ "recompute" \in pendingEffects
  /\ hiddenCount > 0
  /\ Len(visibleList) > 0
  /\ ellipsisSuffix = LongEllipsisSuffix
  /\ evaluation.closure.ellipsisSuffix = DefaultEllipsisSuffix
  /\ displayText = Join(visibleList) \o LongEllipsisSuffix

\* the inputs of the last evaluation
EvalSuffix == evaluation.closure.ellipsisSuffix
EvalAllowOverflow == evaluation.closure.allowOverflow
EvalMinWidth == evaluation.closure.minWidth
\* the width the measurement service reported to the last evaluation for a text
Measured(text) == measureTextWidth(text, evaluation.canvasOk)
\* the measured width of the candidate text for the first k items
TrialWidth(k) == Measured(TotalText(Prefix(EvalEmails, k), Len(EvalEmails), EvalSuffix))
\* the evaluation got past the early returns
PastEarlyExits ==
  /\ Evaluated
  /\ evaluation.attached
  /\ Len(EvalEmails) > 0
  /\ evaluation.availableWidth >= EvalMinWidth

\* C5: when getComputedFont raises during an evaluation the error is caught:
\* the evaluation publishes the whole valid item list as visible, hiddenCount
\* = 0 and ready = true.  (measureTextWidth has its own try/catch and returns
\* 0, so no measurement call raises into the loop.)
C5_RaiseFailsOpen ==
  (Evaluated /\ evaluation.fontThrows /\ evaluation.fontCalls > 0) =>
     /\ visibleList = EvalEmails
     /\ hiddenCount = 0
     /\ isReady

\* the font descriptor raised for three items in a width that fits only one
C5_Witness ==
  /\ evaluation.fontThrows
  /\ evaluation.fontCalls > 0
  /\ evaluation.availableWidth = WidthStep
  /\ Len(EvalEmails) = 3
  /\ visibleList = EvalEmails
  /\ hiddenCount = 0

\* C6 (as claimed): when the measurement service is degraded and reports
\* width 0 for every text, the evaluation publishes all valid items as visible
\* with hiddenCount = 0.
C6_DegradedShowsEverything ==
  (Evaluated /\ ~evaluation.canvasOk) =>
     /\ visibleList = EvalEmails
     /\ hiddenCount = 0

\* C6 (amended): when the measurement service reports width 0 for every text
\* and the evaluation gets past the early returns (container attached,
\* availableWidth >= minWidth), it publishes all valid items as visible with
\* hiddenCount = 0 and ready = true.
C6_DegradedShowsEverythingPastEarlyExits ==
  (PastEarlyExits /\ ~evaluation.canvasOk) =>
     /\ visibleList = EvalEmails
     /\ hiddenCount = 0
     /\ isReady

\* the canvas is unavailable for three items in a width that fits only one
C6_Witness ==
  /\ PastEarlyExits
  /\ ~evaluation.canvasOk
  /\ ~evaluation.fontThrows
  /\ ~EvalAllowOverflow
  /\ evaluation.availableWidth = WidthStep
  /\ Len(EvalEmails) = 3
  /\ visibleList = EvalEmails

\* the width of the joined items does not decrease with the number of items
JoinWidthMonotone ==
  \A k \in 1..(Len(EvalEmails) - 1) :
     Measured(Join(Prefix(EvalEmails, k))) <= Measured(Join(Prefix(EvalEmails, k + 1)))

\* the width of the candidate text, suffix included, does not decrease
TrialWidthMonotone ==
  \A k \in 1..(Len(EvalEmails) - 1) : TrialWidth(k) <= TrialWidth(k + 1)

\* no prefix longer than the published one fits the budget
NoLongerPrefixFits ==
  \A k \in (Len(visibleList) + 1)..Len(EvalEmails) : TrialWidth(k) > evaluation.availableWidth

\* three items, the first two plus suffix fit, all three do not: two visible
ThreeItemScenario ==
  (Len(EvalEmails) = 3 /\ TrialWidth(2) <= evaluation.availableWidth
                       /\ TrialWidth(3) > evaluation.availableWidth) =>
     (visibleList = Prefix(EvalEmails, 2) /\ hiddenCount = 1)

\* C7 (as claimed): the loop publishes the maximal fitting prefix: with the
\* width of the joined items non-decreasing in their number, no longer prefix
\* (with the suffix when it is not the whole list) fits the available width;
\* and in the three-item scenario the first two items are visible.
C7_MaximalFittingPrefix ==
  (Evaluated /\ evaluation.path = "fit" /\ JoinWidthMonotone) =>
     (NoLongerPrefixFits /\ ThreeItemScenario)

\* C7 (amended): the same, when the measured width of the candidate text
\* (the joined prefix plus the suffix while items remain) is non-decreasing in
\* the number of items.
C7_MaximalFittingPrefixMonotoneTrial ==
  (Evaluated /\ evaluation.path = "fit" /\ TrialWidthMonotone) =>
     (NoLongerPrefixFits /\ ThreeItemScenario)

\* the three-item scenario: two items and the suffix fit, the third does not
C7_Witness ==
  /\ evaluation.path = "fit"
  /\ evaluation.canvasOk
  /\ TrialWidthMonotone
  /\ Len(EvalEmails) = 3
  /\ TrialWidth(2) <= evaluation.availableWidth
  /\ TrialWidth(3) > evaluation.availableWidth
  /\ visibleList = Prefix(EvalEmails, 2)
  /\ hiddenCount = 1

\* the widths the monotonicity is compared over
ComparedWidths == Widths \cup {OverrideWidth}

\* the number of visible items the last evaluation's inputs give at width w
VisibleCountAt(w) ==
  Len(computeVisibleRecipients([evaluation.closure EXCEPT !.maxWidth = NoMaxWidth],
                               evaluation.attached, w, evaluation.fontThrows,
                               evaluation.canvasOk).visibleList)

\* C8: with the item list, the suffix, allowOverflow, minWidth and the
\* measurement fixed, a smaller available width never gives more visible
\* items and a larger one never gives fewer than the published evaluation.
C8_MonotoneInWidth ==
  Evaluated =>
    \A w \in ComparedWidths :
       /\ w <= evaluation.availableWidth => VisibleCountAt(w) <= Len(visibleList)
       /\ w >= evaluation.availableWidth => VisibleCountAt(w) >= Len(visibleList)

\* two items are visible, a smaller width shows fewer and a larger one more
C8_Witness ==
  /\ evaluation.path = "fit"
  /\ Len(visibleList) = 2
  /\ \E w1, w2 \in ComparedWidths :
        /\ w1 < evaluation.availableWidth
        /\ evaluation.availableWidth < w2
        /\ VisibleCountAt(w1) < 2
        /\ VisibleCountAt(w2) > 2

\* C9 (as claimed): a single valid item wider than the available width, with
\* allowOverflow, is published as the only visible item with hiddenCount = 0;
\* and with allowOverflow the first item of a non-empty list is always visible.
C9_OverflowEscape ==
  /\ (Evaluated /\ EvalAllowOverflow /\ Len(EvalEmails) = 1
        /\ Measured(EvalEmails[1]) > evaluation.availableWidth) =>
       (visibleList = EvalEmails /\ hiddenCount = 0)
  /\ (Evaluated /\ EvalAllowOverflow /\ Len(EvalEmails) > 0) =>
       (Len(visibleList) >= 1 /\ visibleList[1] = EvalEmails[1])

\* C9 (amended): the same for an evaluation that gets past the early returns:
\* the container is attached and availableWidth >= minWidth.
C9_OverflowEscapePastEarlyExits ==
  /\ (PastEarlyExits /\ EvalAllowOverflow /\ Len(EvalEmails) = 1
        /\ Measured(EvalEmails[1]) > evaluation.availableWidth) =>
       (visibleList = EvalEmails /\ hiddenCount = 0)
  /\ (PastEarlyExits /\ EvalAllowOverflow) =>
       (Len(visibleList) >= 1 /\ visibleList[1] = EvalEmails[1])

\* a single item wider than the budget was measured and is visible
C9_Witness ==
  /\ PastEarlyExits
  /\ evaluation.path = "fit"
  /\ EvalAllowOverflow
  /\ Len(EvalEmails) = 1
  /\ Measured(EvalEmails[1]) > evaluation.availableWidth
  /\ visibleList = EvalEmails
  /\ hiddenCount = 0

\* C10: an evaluation with an empty item list, no attached container or
\* availableWidth < minWidth publishes visibleList = [], hiddenCount = the
\* number of valid items and ready = true, and calls neither getComputedFont
\* nor measureTextWidth.
C10_DegenerateEmptyPartition ==
  (Evaluated /\ (Len(EvalEmails) = 0 \/ ~evaluation.attached
                   \/ evaluation.availableWidth < EvalMinWidth)) =>
     /\ visibleList = <<>>
     /\ hiddenCount = Len(EvalEmails)
     /\ isReady
     /\ evaluation.fontCalls = 0
     /\ evaluation.measureCalls = 0

\* three items under an attached container narrower than minWidth
C10_Witness ==
  /\ Evaluated
  /\ evaluation.attached
  /\ evaluation.availableWidth < EvalMinWidth
  /\ Len(EvalEmails) = 3
  /\ visibleList = <<>>
  /\ hiddenCount = 3
  /\ isReady

\* the last evaluation took an early return
Degenerate ==
  /\ Evaluated
  /\ (Len(EvalEmails) = 0 \/ ~evaluation.attached \/ evaluation.availableWidth < EvalMinWidth)

\* C11 (as claimed): in the degenerate state (empty item list, container not
\* attached, or availableWidth < minWidth) the displayText is the empty string,
\* also when hiddenCount is positive.
C11_DegenerateDisplayTextEmpty ==
  Degenerate => displayText = <<>>

\* C11 (amended): in the degenerate state the displayText is the empty string
\* when the item list is empty, and the suffix marker alone when items are
\* hidden (hiddenCount = item count > 0).
C11_DegenerateDisplayTextIsSuffix ==
  Degenerate => displayText = (IF Len(EvalEmails) > 0 THEN ellipsisSuffix ELSE <<>>)

\* three items under an attached container narrower than minWidth show the marker
C11_Witness ==
  /\ Degenerate
  /\ evaluation.attached
  /\ Len(EvalEmails) = 3
  /\ hiddenCount = 3
  /\ displayText = ellipsisSuffix

\* C12 (as claimed): in every committed render the displayText is built from
\* the partition and the suffix marker of one and the same evaluation.
C12_NoPartialMerging ==
  displayText = DisplayTextOf(visibleList, hiddenCount, EvalSuffix, isReady)

\* C17 (as claimed): one evaluation obtains the font descriptor exactly once
\* and calls measureTextWidth at most once per valid item: visibleList.length
\* + 1 times when a candidate is rejected, item-count times when all are
\* accepted.
C17_LinearMeasurement ==
  Evaluated =>
    /\ evaluation.fontCalls = 1
    /\ evaluation.measureCalls <= Len(EvalEmails)
    /\ evaluation.measureCalls =
         (IF Len(visibleList) < Len(EvalEmails) THEN Len(visibleList) + 1 ELSE Len(EvalEmails))

\* C17 (amended): an evaluation that gets past the early returns obtains the
\* font descriptor exactly once; when that call succeeds the loop measures at
\* most once per valid item, visibleList.length + 1 times when a candidate is
\* rejected and item-count times when all are accepted.  An early return
\* makes no call, and after a failed font call nothing is measured.
C17_LinearMeasurementPastEarlyExits ==
  /\ PastEarlyExits => evaluation.fontCalls = 1
  /\ (PastEarlyExits /\ ~evaluation.fontThrows) =>
       /\ evaluation.measureCalls <= Len(EvalEmails)
       /\ evaluation.measureCalls =
            (IF Len(visibleList) < Len(EvalEmails) THEN Len(visibleList) + 1 ELSE Len(EvalEmails))
  /\ (Evaluated /\ ~PastEarlyExits) => (evaluation.fontCalls = 0 /\ evaluation.measureCalls = 0)
  /\ (PastEarlyExits /\ evaluation.fontThrows) => evaluation.measureCalls = 0

\* the loop rejected the second of three items after two measurements
C17_Witness ==
  /\ PastEarlyExits
  /\ evaluation.path = "fit"
  /\ Len(EvalEmails) = 3
  /\ Len(visibleList) = 1
  /\ evaluation.measureCalls = 2
  /\ evaluation.fontCalls = 1

\* C18 (as claimed): when maxWidth is supplied, the budget of the evaluation
\* is that value, for the minimum-width check and for the fit, whatever the
\* container's clientWidth; the clientWidth is used only without an override.
C18_OverrideIsBudget ==
  (Evaluated /\ evaluation.attached /\ Len(EvalEmails) > 0) =>
    /\ evaluation.closure.maxWidth.supplied =>
         /\ evaluation.availableWidth = evaluation.closure.maxWidth.px
         /\ (evaluation.closure.maxWidth.px < EvalMinWidth) => evaluation.path = "early"
    /\ ~evaluation.closure.maxWidth.supplied =>
         evaluation.availableWidth = evaluation.clientWidth

\* C19: ready is false and displayText is empty until the first evaluation
\* has published; every evaluation, on each of its paths, publishes ready =
\* true; and ready never returns to false.
C19_ReadinessMonotone ==
  /\ [](~Evaluated => (~isReady /\ displayText = <<>>))
  /\ [](Evaluated => isReady)
  /\ [][isReady => isReady']_vars

\* a later evaluation took the early return and the result is still ready
C19_Witness ==
  /\ isReady
  /\ evaluation.trigger = "resize"
  /\ evaluation.path = "early"
  /\ Len(EvalEmails) > 0

\* C13: a resize subscription exists only while the component is mounted
\* and the target element is attached, at most one is connected at a time,
\* and after the unmount none is left, so that no resize can trigger an
\* evaluation.
C13_ObserverLifecycle ==
  /\ subscriptions <= 1
  /\ subscriptions > 0 => (mounted /\ containerRef /\ observer.active)
  /\ ~mounted => (subscriptions = 0 /\ ~ENABLED ResizeObserved)

\* unmounted after a subscription had delivered a resize
C13_Witness ==
  /\ ~mounted
  /\ subscriptions = 0
  /\ evaluation.trigger = "resize"

\* C14: a fitting pass that runs with the same item list, container,
\* width, configuration and measurement facility as the pass before it
\* publishes the same visibleList, hiddenCount, displayText and ready.
C14_Idempotent ==
  evaluation.repeated => evaluation.republished

\* a resize repeated the measuring pass of three items and hid some again
C14_Witness ==
  /\ evaluation.repeated
  /\ evaluation.republished
  /\ evaluation.trigger = "resize"
  /\ evaluation.path = "fit"
  /\ hiddenCount > 0
  /\ Len(visibleList) > 0

\* C15 (as claimed): onTruncate is invoked only when ready and hiddenCount
\* > 0, with hiddenCount and the total visibleList.length + hiddenCount;
\* onTooltipShow only when the tooltip is shown and hiddenCount > 0; and
\* onTooltipHide only when the tooltip goes from shown to hidden.
C15_NotificationGuards ==
  /\ calls.onTruncate # <<>> =>
       /\ isReady /\ hiddenCount > 0
       /\ calls.onTruncate = <<hiddenCount, Len(visibleList) + hiddenCount>>
  /\ calls.onTooltipShow # <<>> =>
       /\ isVisible /\ hiddenCount > 0
       /\ calls.onTooltipShow = <<hiddenCount>>
  /\ calls.onTooltipHide # <<>> =>
       /\ ~isVisible
       /\ calls.onTooltipHide = <<TRUE>>

\* C16 (as claimed): a show() or hide() call that takes effect leaves no
\* armed timer of the opposing kind, so once every timer has expired the
\* tooltip is visible exactly when the last call was show().
C16_LastTriggerWins ==
  /\ (lastCall.op = "show" /\ ~lastCall.ignored) =>
       /\ \A t \in timers : t.kind # "hide"
       /\ timers = {} => isVisible
  /\ lastCall.op = "hide" =>
       /\ \A t \in timers : t.kind # "show"
       /\ timers = {} => ~isVisible

\* C20 (as claimed): while disabled is true, no step, operation or timer
\* expiry, takes the tooltip from not visible to visible; show() and
\* showImmediate() return at once and leave isVisible and the timers as
\* they are.
C20_DisabledStaysHidden ==
  [][(disabled /\ disabled') =>
       /\ ~isVisible => ~isVisible'
       /\ (lastCall'.ignored /\ lastCall' # lastCall) =>
            UNCHANGED <<isVisible, showTimeout, hideTimeout, timers, timerCount>>]_vars

====
